---- MODULE Spec2Model ----
(***************************************************************************)
(* A model of the ledger/consensus core of BlockchainApp.tsx: the classes  *)
(* SimpleHash, Transaction, Block, SimpleWallet, Validator and             *)
(* CosmosBlockchain, and the callers of CosmosBlockchain in the React      *)
(* component (createWallet).                                               *)
(*                                                                         *)
(* Strings are sequences of UTF-16 code units, as SimpleHash reads them    *)
(* with charCodeAt.  Numbers are integers.                                 *)
(***************************************************************************)
EXTENDS Integers, Sequences, FiniteSets, TLC

(***************************************************************************)
(* Bounds of the model.                                                    *)
(***************************************************************************)
\* the number of calls that change the blockchain
MaxCalls == 4
\* the largest stake of a validator where selectValidator is checked alone
MaxStake == 2

\* the number of calls made before the outcomes of the draws are compared
MaxDrawCalls == 3

(***************************************************************************)
(* String literals of the source, as code units.                           *)
(***************************************************************************)
\* null: no string has a code unit below 0
NULL == <<-1>>
EmptyString == <<>>
validator1 == <<118, 97, 108, 105, 100, 97, 116, 111, 114, 49>>
validator2 == <<118, 97, 108, 105, 100, 97, 116, 111, 114, 50>>
validator3 == <<118, 97, 108, 105, 100, 97, 116, 111, 114, 51>>
genesis == <<103, 101, 110, 101, 115, 105, 115>>
\* "0", the genesis block's previousHash
ZeroString == <<48>>
\* `${null}` and JSON's null
K_null == <<110, 117, 108, 108>>
\* the property names JSON.stringify writes for a Transaction, in the order
\* the constructor assigns them
K_fromAddress == <<123, 34, 102, 114, 111, 109, 65, 100, 100, 114, 101, 115, 115, 34, 58>>
K_toAddress == <<44, 34, 116, 111, 65, 100, 100, 114, 101, 115, 115, 34, 58>>
K_amount == <<44, 34, 97, 109, 111, 117, 110, 116, 34, 58>>
K_fee == <<44, 34, 102, 101, 101, 34, 58>>
K_timestamp == <<44, 34, 116, 105, 109, 101, 115, 116, 97, 109, 112, 34, 58>>
K_hash == <<44, 34, 104, 97, 115, 104, 34, 58>>
K_signature == <<44, 34, 115, 105, 103, 110, 97, 116, 117, 114, 101, 34, 58>>

\* the error messages thrown
NoError == "none"
ErrInvalidTransaction == "invalid transaction"
ErrNoActiveValidators == "no active validators"
ErrUnknownValidator == "validator does not exist"
ErrInsufficientBalance == "insufficient balance"

(***************************************************************************)
(* Number and string conversions.                                          *)
(***************************************************************************)
RECURSIVE NatToString(_)
\* the decimal digits of a natural number
NatToString(n) ==
    IF n < 10 THEN <<48 + n>> ELSE Append(NatToString(n \div 10), 48 + (n % 10))

\* String(n) of an integer, as a template literal and JSON.stringify write it
NumberToString(n) == IF n < 0 THEN <<45>> \o NatToString(-n) ELSE NatToString(n)

\* `${s}` of a string or null
TemplateString(s) == IF s = NULL THEN K_null ELSE s

\* JSON.stringify of a string or null (the strings of the model hold no
\* character that JSON escapes)
JsonString(s) == IF s = NULL THEN K_null ELSE <<34>> \o s \o <<34>>

HexDigit(d) == IF d < 10 THEN 48 + d ELSE 87 + d

RECURSIVE StripZeros(_)
StripZeros(ds) ==
    IF Len(ds) > 1 /\ ds[1] = 0 THEN StripZeros(Tail(ds)) ELSE ds

\* n.toString(16) of the number hi * 65536 + lo
ToHexString(hi, lo) ==
    LET nibbles == << hi \div 4096, (hi \div 256) % 16, (hi \div 16) % 16, hi % 16,
                      lo \div 4096, (lo \div 256) % 16, (lo \div 16) % 16, lo % 16 >>
        kept == StripZeros(nibbles)
    IN  [i \in 1..Len(kept) |-> HexDigit(kept[i])]

(***************************************************************************)
(* SimpleHash.create on a string.  The running hash is a 32-bit integer,   *)
(* held as its two 16-bit halves <<hi, lo>> in two's complement.           *)
(***************************************************************************)
\* hash = ((hash << 5) - hash) + char; hash = hash & hash
HashStep(h, char) ==
    LET lo == h[2] * 31 + char
        hi == h[1] * 31 + (lo \div 65536)
    IN  << hi % 65536, lo % 65536 >>

RECURSIVE HashLoop(_, _, _, _)
\* for (let i = from; i <= to; i++) hash = HashStep(hash, str[i]): the loop over
\* str[from..to], split in two halves to keep the evaluation shallow
HashLoop(h, str, from, to) ==
    IF from > to THEN h
    ELSE IF from = to THEN HashStep(h, str[from])
    ELSE LET mid == (from + to) \div 2
             left == HashLoop(h, str, from, mid)
         \* left[1] >= 0 always holds: the test makes TLC evaluate the first half
         \* before it enters the second
         IN  IF left[1] >= 0 THEN HashLoop(left, str, mid + 1, to) ELSE left

\* Math.abs of the 32-bit integer <<hi, lo>>
MathAbs(h) ==
    IF h[1] < 32768 THEN h
    ELSE << (65535 - h[1] + (IF h[2] = 0 THEN 1 ELSE 0)) % 65536, (65536 - h[2]) % 65536 >>

SimpleHashCreate(str) ==
    LET a == MathAbs(HashLoop(<<0, 0>>, str, 1, Len(str))) IN ToHexString(a[1], a[2])

(***************************************************************************)
(* Transaction                                                             *)
(***************************************************************************)
TransactionCalculateHash(tx) ==
    SimpleHashCreate(TemplateString(tx.fromAddress) \o tx.toAddress
                     \o NumberToString(tx.amount) \o NumberToString(tx.fee)
                     \o NumberToString(tx.timestamp))

\* new Transaction(fromAddress, toAddress, amount, fee) at time Date.now() = t
NewTransaction(fromAddress, toAddress, amount, fee, t) ==
    LET fields == [fromAddress |-> fromAddress, toAddress |-> toAddress,
                   amount |-> amount, fee |-> fee, timestamp |-> t]
    IN  [fromAddress |-> fromAddress, toAddress |-> toAddress, amount |-> amount,
         fee |-> fee, timestamp |-> t, hash |-> TransactionCalculateHash(fields),
         signature |-> NULL]

signTransaction(tx, privateKey) ==
    IF tx.fromAddress = NULL THEN tx
    ELSE [tx EXCEPT !.signature = SimpleHashCreate(tx.hash \o privateKey)]

isValid(tx) ==
    IF tx.fromAddress = NULL THEN TRUE ELSE tx.signature # NULL

\* JSON.stringify of one transaction
JsonTransaction(tx) ==
    K_fromAddress \o JsonString(tx.fromAddress)
    \o K_toAddress \o JsonString(tx.toAddress)
    \o K_amount \o NumberToString(tx.amount)
    \o K_fee \o NumberToString(tx.fee)
    \o K_timestamp \o NumberToString(tx.timestamp)
    \o K_hash \o JsonString(tx.hash)
    \o K_signature \o JsonString(tx.signature)
    \o <<125>>

RECURSIVE JsonElements(_, _)
JsonElements(txs, i) ==
    IF i > Len(txs) THEN <<>>
    ELSE (IF i > 1 THEN <<44>> ELSE <<>>) \o JsonTransaction(txs[i]) \o JsonElements(txs, i + 1)

\* JSON.stringify of an array of transactions
JsonTransactions(txs) == <<91>> \o JsonElements(txs, 1) \o <<93>>

(***************************************************************************)
(* Block                                                                   *)
(***************************************************************************)
BlockCalculateHash(b) ==
    SimpleHashCreate(NumberToString(b.index) \o b.previousHash
                     \o NumberToString(b.timestamp)
                     \o JsonTransactions(b.transactions) \o b.validator)

\* new Block(index, transactions, previousHash, validator) at Date.now() = t
NewBlock(index, transactions, previousHash, validator, t) ==
    LET fields == [index |-> index, timestamp |-> t, transactions |-> transactions,
                   previousHash |-> previousHash, validator |-> validator]
    IN  [index |-> index, timestamp |-> t, transactions |-> transactions,
         previousHash |-> previousHash, validator |-> validator,
         hash |-> BlockCalculateHash(fields)]

(***************************************************************************)
(* SimpleWallet                                                            *)
(***************************************************************************)
\* the private keys Math.random() draws
PrivateKeys == { <<107, 49, 120>> }

\* s.substring(0, n)
Substring0(s, n) == IF Len(s) <= n THEN s ELSE SubSeq(s, 1, n)

\* new SimpleWallet() with the drawn private key
NewSimpleWallet(privateKey) ==
    [privateKey |-> privateKey,
     address |-> Substring0(SimpleHashCreate(privateKey), 12)]


(***************************************************************************)
(* Maps (Map<string, T>) are functions whose domain is the set of keys.    *)
(***************************************************************************)
MapSet(m, k, v) == [x \in (DOMAIN m) \cup {k} |-> IF x = k THEN v ELSE m[x]]

EmptyMap == [x \in {} |-> 0]

(***************************************************************************)
(* Validator                                                               *)
(***************************************************************************)
\* a validator made inactive (used to test C13)
NewValidatorInactive(address, stake) ==
    [address |-> address, stake |-> stake, isActive |-> FALSE,
     missedBlocks |-> 0, totalBlocks |-> 0]

\* a Validator constructor that starts the count of blocks at 1 (used to test C29)
NewValidatorCounted(address, stake) ==
    [address |-> address, stake |-> stake, isActive |-> TRUE,
     missedBlocks |-> 0, totalBlocks |-> 1]

NewValidator(address, stake) ==
    [address |-> address, stake |-> stake, isActive |-> TRUE,
     missedBlocks |-> 0, totalBlocks |-> 0]

\* increaseStake with the stake replaced instead of raised (used to test C4)
increaseStakeReplaced(validator, amount) == [validator EXCEPT !.stake = amount]

\* increaseStake that adds the amount twice (used to test C28)
increaseStakeTwice(validator, amount) == [validator EXCEPT !.stake = @ + amount + amount]

increaseStake(validator, amount) == [validator EXCEPT !.stake = @ + amount]

(***************************************************************************)
(* CosmosBlockchain.  A blockchain object bc is the record of its fields;  *)
(* a method that mutates it is an operator from bc to the record           *)
(* [bc, error, ...] of the object after the call and the error thrown.     *)
(***************************************************************************)
miningReward == 100

\* genesis validators without stake (used to test C30)
genesisValidatorsUnstaked ==
    << [address |-> validator1, stake |-> 0],
       [address |-> validator2, stake |-> 0],
       [address |-> validator3, stake |-> 0] >>

genesisValidators ==
    << [address |-> validator1, stake |-> 1000000],
       [address |-> validator2, stake |-> 800000],
       [address |-> validator3, stake |-> 600000] >>

\* the keys of this.validators in insertion order, the order Map.values() walks
ValidatorOrder == [i \in 1..Len(genesisValidators) |-> genesisValidators[i].address]

createGenesisBlock(t) == NewBlock(0, <<>>, ZeroString, genesis, t)

RECURSIVE initializeGenesisValidators(_, _)
\* genesisValidators.forEach from the i-th on
initializeGenesisValidators(bc, i) ==
    IF i > Len(genesisValidators) THEN bc
    ELSE LET v == genesisValidators[i]
         IN  initializeGenesisValidators(
                 [bc EXCEPT !.validators = MapSet(@, v.address, NewValidator(v.address, v.stake)),
                            !.balances = MapSet(@, v.address, v.stake),
                            !.totalSupply = @ + v.stake],
                 i + 1)

\* new CosmosBlockchain() at Date.now() = t
NewCosmosBlockchain(t) ==
    initializeGenesisValidators(
        [chain |-> << createGenesisBlock(t) >>,
         pendingTransactions |-> <<>>,
         validators |-> EmptyMap,
         balances |-> EmptyMap,
         stakingPool |-> EmptyMap,
         totalSupply |-> 0],
        1)

\* getLatestBlock returning the first block of the chain (used to test C3)
getLatestBlockFirst(bc) == bc.chain[1]

getLatestBlock(bc) == bc.chain[Len(bc.chain)]

\* this.balances.get(address) || 0
getBalance(bc, address) ==
    IF address \in DOMAIN bc.balances THEN bc.balances[address] ELSE 0

\* createTransaction that also refuses a transaction its origin cannot afford
\* (used to test C7)
createTransactionAffordable(bc, transaction) ==
    IF ~isValid(transaction)
       \/ (transaction.fromAddress # NULL
           /\ getBalance(bc, transaction.fromAddress) < transaction.amount + transaction.fee)
    THEN [bc |-> bc, error |-> ErrInvalidTransaction]
    ELSE [bc |-> [bc EXCEPT !.pendingTransactions = Append(@, transaction)],
          error |-> NoError]

createTransaction(bc, transaction) ==
    IF ~isValid(transaction)
    THEN [bc |-> bc, error |-> ErrInvalidTransaction]
    ELSE [bc |-> [bc EXCEPT !.pendingTransactions = Append(@, transaction)],
          error |-> NoError]

\* the filter without the test of the stake (used to test C14)
activeValidatorsAnyStake(bc) ==
    SelectSeq([i \in 1..Len(ValidatorOrder) |-> bc.validators[ValidatorOrder[i]]],
              LAMBDA v : v.isActive)

\* the filter without the test of isActive (used to test C15)
activeValidatorsAnyActivity(bc) ==
    SelectSeq([i \in 1..Len(ValidatorOrder) |-> bc.validators[ValidatorOrder[i]]],
              LAMBDA v : v.stake > 0)

\* Array.from(this.validators.values()).filter(v => v.isActive && v.stake > 0)
activeValidators(bc) ==
    SelectSeq([i \in 1..Len(ValidatorOrder) |-> bc.validators[ValidatorOrder[i]]],
              LAMBDA v : v.isActive /\ v.stake > 0)

RECURSIVE SumStake(_, _)
\* the sum of the stakes of vs[1..n]
SumStake(vs, n) == IF n = 0 THEN 0 ELSE SumStake(vs, n - 1) + vs[n].stake

\* selectValidator walking all the validators, not the active ones (used to test
\* C22)
selectValidatorWalkAll(bc, random) ==
    LET active == activeValidators(bc)
        all == [i \in 1..Len(ValidatorOrder) |-> bc.validators[ValidatorOrder[i]]]
        reached == { i \in 1..Len(all) : random <= SumStake(all, i) }
    IN  IF Len(active) = 0 THEN [error |-> ErrNoActiveValidators, validator |-> NULL]
        ELSE IF reached # {}
             THEN [error |-> NoError,
                   validator |-> all[CHOOSE i \in reached : \A j \in reached : i <= j].address]
             ELSE [error |-> NoError, validator |-> active[1].address]

\* selectValidator() with Math.random() * totalStake = random: the address of the
\* validator returned, or the error thrown
selectValidator(bc, random) ==
    LET active == activeValidators(bc)
        reached == { i \in 1..Len(active) : random <= SumStake(active, i) }
    IN  IF Len(active) = 0 THEN [error |-> ErrNoActiveValidators, validator |-> NULL]
        ELSE IF reached # {}
             THEN [error |-> NoError,
                   validator |-> active[CHOOSE i \in reached : \A j \in reached : i <= j].address]
             ELSE [error |-> NoError, validator |-> active[1].address]

isTransactionValid(bc, transaction) ==
    IF transaction.fromAddress = NULL \/ transaction.fromAddress = EmptyString THEN TRUE
    ELSE getBalance(bc, transaction.fromAddress) >= transaction.amount + transaction.fee

\* the settlement of one transaction with the fee not credited to the validator
\* (used to test C1)
SettleTransactionFeeLost(bc, transaction, validatorAddress) ==
    IF transaction.fromAddress # NULL
    THEN LET b1 == [bc EXCEPT !.balances = MapSet(@, transaction.fromAddress,
                        getBalance(bc, transaction.fromAddress) - transaction.amount - transaction.fee)]
         IN  [b1 EXCEPT !.balances = MapSet(@, transaction.toAddress,
                        getBalance(b1, transaction.toAddress) + transaction.amount)]
    ELSE [bc EXCEPT !.balances = MapSet(@, transaction.toAddress,
                        getBalance(bc, transaction.toAddress) + transaction.amount),
                    !.totalSupply = @ + transaction.amount]

\* the settlement of one transaction with totalSupply raised by miningReward for a
\* transaction without origin, whatever its amount (used to test C9)
SettleTransactionFixedMint(bc, transaction, validatorAddress) ==
    IF transaction.fromAddress # NULL
    THEN LET b1 == [bc EXCEPT !.balances = MapSet(@, transaction.fromAddress,
                        getBalance(bc, transaction.fromAddress) - transaction.amount - transaction.fee)]
             b2 == [b1 EXCEPT !.balances = MapSet(@, transaction.toAddress,
                        getBalance(b1, transaction.toAddress) + transaction.amount)]
         IN  [b2 EXCEPT !.balances = MapSet(@, validatorAddress,
                        getBalance(b2, validatorAddress) + transaction.fee)]
    ELSE [bc EXCEPT !.balances = MapSet(@, transaction.toAddress,
                        getBalance(bc, transaction.toAddress) + transaction.amount),
                    !.totalSupply = @ + miningReward]

\* the settlement of one transaction with a reward paid to a validator added to
\* its stake as well (used to test C23)
SettleTransactionRewardStaked(bc, transaction, validatorAddress) ==
    IF transaction.fromAddress # NULL
    THEN LET b1 == [bc EXCEPT !.balances = MapSet(@, transaction.fromAddress,
                        getBalance(bc, transaction.fromAddress) - transaction.amount - transaction.fee)]
             b2 == [b1 EXCEPT !.balances = MapSet(@, transaction.toAddress,
                        getBalance(b1, transaction.toAddress) + transaction.amount)]
         IN  [b2 EXCEPT !.balances = MapSet(@, validatorAddress,
                        getBalance(b2, validatorAddress) + transaction.fee)]
    ELSE [bc EXCEPT !.balances = MapSet(@, transaction.toAddress,
                        getBalance(bc, transaction.toAddress) + transaction.amount),
                    !.totalSupply = @ + transaction.amount,
                    !.validators = IF transaction.toAddress \in DOMAIN @
                                   THEN [@ EXCEPT ![transaction.toAddress].stake =
                                                     @ + transaction.amount]
                                   ELSE @]

\* the body of the settlement loop of minePendingTransactions for one transaction
SettleTransaction(bc, transaction, validatorAddress) ==
    IF transaction.fromAddress # NULL
    THEN LET b1 == [bc EXCEPT !.balances = MapSet(@, transaction.fromAddress,
                        getBalance(bc, transaction.fromAddress) - transaction.amount - transaction.fee)]
             b2 == [b1 EXCEPT !.balances = MapSet(@, transaction.toAddress,
                        getBalance(b1, transaction.toAddress) + transaction.amount)]
         IN  [b2 EXCEPT !.balances = MapSet(@, validatorAddress,
                        getBalance(b2, validatorAddress) + transaction.fee)]
    ELSE [bc EXCEPT !.balances = MapSet(@, transaction.toAddress,
                        getBalance(bc, transaction.toAddress) + transaction.amount),
                    !.totalSupply = @ + transaction.amount]

RECURSIVE SettleLoop(_, _, _, _)
\* bc after the settlement loop has run over the first k transactions
SettleLoop(bc, transactions, validatorAddress, k) ==
    IF k = 0 THEN bc
    ELSE SettleTransaction(SettleLoop(bc, transactions, validatorAddress, k - 1),
                           transactions[k], validatorAddress)

\* the reward paid to the first genesis validator instead of the selected one
\* (used to test C10)
NewRewardTransactionToFirst(validatorAddress, t) ==
    NewTransaction(NULL, validator1, miningReward, 0, t)

\* new Transaction(null, validator.address, this.miningReward) at Date.now() = t
NewRewardTransaction(validatorAddress, t) ==
    NewTransaction(NULL, validatorAddress, miningReward, 0, t)

\* the filter keeping one transaction of each origin, the first (used to test C12)
validTransactionsOncePerOrigin(bc) ==
    LET pool == bc.pendingTransactions
        kept == SelectSeq([k \in 1..Len(pool) |-> k],
                          LAMBDA k : /\ isTransactionValid(bc, pool[k])
                                     /\ \/ pool[k].fromAddress = NULL
                                        \/ \A j \in 1..(k - 1) :
                                              pool[j].fromAddress # pool[k].fromAddress)
    IN  [n \in 1..Len(kept) |-> pool[kept[n]]]

\* the filter returning the transactions it keeps in the reverse order (used to
\* test C19)
validTransactionsReversed(bc) ==
    LET kept == SelectSeq(bc.pendingTransactions, LAMBDA tx : isTransactionValid(bc, tx))
    IN  [n \in 1..Len(kept) |-> kept[Len(kept) + 1 - n]]

\* this.pendingTransactions.filter(tx => this.isTransactionValid(tx))
validTransactions(bc) ==
    SelectSeq(bc.pendingTransactions, LAMBDA tx : isTransactionValid(bc, tx))

\* the block made with the reward left in the pending pool when the call returns
\* (used to test C17)
ProduceBlockPoolKept(bc, validatorAddress, tReward, tBlock) ==
    LET reward == NewRewardTransaction(validatorAddress, tReward)
        pushed == [bc EXCEPT !.pendingTransactions = Append(@, reward)]
        valid == validTransactions(pushed)
        block == NewBlock(Len(pushed.chain), valid, getLatestBlock(pushed).hash,
                          validatorAddress, tBlock)
        settled == SettleLoop(pushed, valid, validatorAddress, Len(valid))
    IN  [bc |-> [settled EXCEPT !.chain = Append(@, block),
                                !.validators[validatorAddress].totalBlocks = @ + 1,
                                !.pendingTransactions = << reward >>],
         error |-> NoError,
         block |-> block,
         pending |-> bc.pendingTransactions,
         ledgers |-> [k \in 1..(Len(valid) + 1) |->
                        LET at == SettleLoop(pushed, valid, validatorAddress, k - 1)
                        IN  [balances |-> at.balances, totalSupply |-> at.totalSupply]]]

\* the block made without the transactions that the selected validator sends or
\* receives (used to test C31)
ProduceBlockOthersOnly(bc, validatorAddress, tReward, tBlock) ==
    LET reward == NewRewardTransaction(validatorAddress, tReward)
        pushed == [bc EXCEPT !.pendingTransactions = Append(@, reward)]
        valid == SelectSeq(validTransactions(pushed),
                           LAMBDA tx : \/ tx = reward
                                       \/ /\ tx.fromAddress # validatorAddress
                                          /\ tx.toAddress # validatorAddress)
        block == NewBlock(Len(pushed.chain), valid, getLatestBlock(pushed).hash,
                          validatorAddress, tBlock)
        settled == SettleLoop(pushed, valid, validatorAddress, Len(valid))
    IN  [bc |-> [settled EXCEPT !.chain = Append(@, block),
                                !.validators[validatorAddress].totalBlocks = @ + 1,
                                !.pendingTransactions = <<>>],
         error |-> NoError,
         block |-> block,
         pending |-> bc.pendingTransactions,
         ledgers |-> [k \in 1..(Len(valid) + 1) |->
                        LET at == SettleLoop(pushed, valid, validatorAddress, k - 1)
                        IN  [balances |-> at.balances, totalSupply |-> at.totalSupply]]]

\* minePendingTransactions() after the validator is selected, with the two
\* readings of Date.now(): tReward in the reward's constructor, tBlock in the
\* block's.  pending is the pool at the call; ledgers[k] is the ledger before the
\* k-th transaction of the block is settled, ledgers[k + 1] the ledger after.
ProduceBlock(bc, validatorAddress, tReward, tBlock) ==
    LET pushed == [bc EXCEPT !.pendingTransactions =
                       Append(@, NewRewardTransaction(validatorAddress, tReward))]
        valid == validTransactions(pushed)
        block == NewBlock(Len(pushed.chain), valid, getLatestBlock(pushed).hash,
                          validatorAddress, tBlock)
        settled == SettleLoop(pushed, valid, validatorAddress, Len(valid))
    IN  [bc |-> [settled EXCEPT !.chain = Append(@, block),
                                !.validators[validatorAddress].totalBlocks = @ + 1,
                                !.pendingTransactions = <<>>],
         error |-> NoError,
         block |-> block,
         pending |-> bc.pendingTransactions,
         ledgers |-> [k \in 1..(Len(valid) + 1) |->
                        LET at == SettleLoop(pushed, valid, validatorAddress, k - 1)
                        IN  [balances |-> at.balances, totalSupply |-> at.totalSupply]]]

\* minePendingTransactions that empties the pending pool before it selects the
\* validator (used to test C6)
minePendingTransactionsClearFirst(bc, random, tReward, tBlock) ==
    LET selected == selectValidator(bc, random)
    IN  IF selected.error # NoError
        THEN [bc |-> [bc EXCEPT !.pendingTransactions = <<>>],
              error |-> selected.error, block |-> NULL,
              pending |-> bc.pendingTransactions, ledgers |-> <<>>]
        ELSE ProduceBlock(bc, selected.validator, tReward, tBlock)

\* minePendingTransactions that puts the new block in the place of the blocks
\* after the genesis block (used to test C26)
minePendingTransactionsTruncating(bc, random, tReward, tBlock) ==
    LET selected == selectValidator(bc, random)
    IN  IF selected.error # NoError
        THEN [bc |-> bc, error |-> selected.error, block |-> NULL,
              pending |-> bc.pendingTransactions, ledgers |-> <<>>]
        ELSE LET made == ProduceBlock(bc, selected.validator, tReward, tBlock)
             IN  [made EXCEPT !.bc.chain = << bc.chain[1], made.block >>]

\* minePendingTransactions() with Math.random() * totalStake = random
minePendingTransactions(bc, random, tReward, tBlock) ==
    LET selected == selectValidator(bc, random)
    IN  IF selected.error # NoError
        THEN [bc |-> bc, error |-> selected.error, block |-> NULL,
              pending |-> bc.pendingTransactions, ledgers |-> <<>>]
        ELSE ProduceBlock(bc, selected.validator, tReward, tBlock)

\* this.stakingPool.get(address) || new Map()
getStakingInfo(bc, address) ==
    IF address \in DOMAIN bc.stakingPool THEN bc.stakingPool[address] ELSE EmptyMap

\* delegate that makes the delegator's entry in the staking pool before it checks
\* the validator and the balance (used to test C5)
delegateEntryFirst(bc, delegatorAddress, validatorAddress, amount) ==
    LET delegatorStaking == getStakingInfo(bc, delegatorAddress)
        entered == [bc EXCEPT !.stakingPool =
                       MapSet(@, delegatorAddress, delegatorStaking)]
        currentStake == IF validatorAddress \in DOMAIN delegatorStaking
                        THEN delegatorStaking[validatorAddress] ELSE 0
    IN  IF validatorAddress \notin DOMAIN bc.validators
        THEN [bc |-> entered, error |-> ErrUnknownValidator]
        ELSE IF getBalance(bc, delegatorAddress) < amount
        THEN [bc |-> entered, error |-> ErrInsufficientBalance]
        ELSE [bc |-> [bc EXCEPT
                        !.balances = MapSet(@, delegatorAddress,
                                            getBalance(bc, delegatorAddress) - amount),
                        !.stakingPool = MapSet(@, delegatorAddress,
                                               MapSet(delegatorStaking, validatorAddress,
                                                      currentStake + amount)),
                        !.validators[validatorAddress] = increaseStake(@, amount)],
              error |-> NoError]

\* delegate that credits the amount to the validator's balance as well (used to
\* test C25)
delegateCreditingValidator(bc, delegatorAddress, validatorAddress, amount) ==
    IF validatorAddress \notin DOMAIN bc.validators
    THEN [bc |-> bc, error |-> ErrUnknownValidator]
    ELSE IF getBalance(bc, delegatorAddress) < amount
    THEN [bc |-> bc, error |-> ErrInsufficientBalance]
    ELSE LET delegatorStaking == getStakingInfo(bc, delegatorAddress)
             currentStake == IF validatorAddress \in DOMAIN delegatorStaking
                             THEN delegatorStaking[validatorAddress] ELSE 0
             debited == [bc EXCEPT
                           !.balances = MapSet(@, delegatorAddress,
                                               getBalance(bc, delegatorAddress) - amount)]
         IN  [bc |-> [debited EXCEPT
                        !.balances = MapSet(@, validatorAddress,
                                            getBalance(debited, validatorAddress) + amount),
                        !.stakingPool = MapSet(@, delegatorAddress,
                                               MapSet(delegatorStaking, validatorAddress,
                                                      currentStake + amount)),
                        !.validators[validatorAddress] = increaseStake(@, amount)],
              error |-> NoError]

delegate(bc, delegatorAddress, validatorAddress, amount) ==
    IF validatorAddress \notin DOMAIN bc.validators
    THEN [bc |-> bc, error |-> ErrUnknownValidator]
    ELSE IF getBalance(bc, delegatorAddress) < amount
    THEN [bc |-> bc, error |-> ErrInsufficientBalance]
    ELSE LET delegatorStaking == getStakingInfo(bc, delegatorAddress)
             currentStake == IF validatorAddress \in DOMAIN delegatorStaking
                             THEN delegatorStaking[validatorAddress] ELSE 0
         IN  [bc |-> [bc EXCEPT
                        !.balances = MapSet(@, delegatorAddress,
                                            getBalance(bc, delegatorAddress) - amount),
                        !.stakingPool = MapSet(@, delegatorAddress,
                                               MapSet(delegatorStaking, validatorAddress,
                                                      currentStake + amount)),
                        !.validators[validatorAddress] = increaseStake(@, amount)],
              error |-> NoError]

\* getChainInfo reporting the length of the chain as the height (used to test C16)
getChainInfoLength(bc) ==
    [blockHeight |-> Len(bc.chain),
     totalSupply |-> bc.totalSupply,
     activeValidators |-> Cardinality({a \in DOMAIN bc.validators : bc.validators[a].isActive}),
     pendingTransactions |-> Len(bc.pendingTransactions)]

getChainInfo(bc) ==
    [blockHeight |-> Len(bc.chain) - 1,
     totalSupply |-> bc.totalSupply,
     activeValidators |-> Cardinality({a \in DOMAIN bc.validators : bc.validators[a].isActive}),
     pendingTransactions |-> Len(bc.pendingTransactions)]


(***************************************************************************)
(* The state: the blockchain object and the wallets of the component, the  *)
(* number of calls made and a record of the last one.                      *)
(***************************************************************************)
VARIABLES
    blockchain,   \* the CosmosBlockchain of the component
    wallets,      \* the wallets created, in order
    calls,        \* the number of calls that changed the blockchain
    lastCall      \* the last call: its name, error, arguments and results

vars == << blockchain, wallets, calls, lastCall >>

\* Date.now(): the clock advances by one with every block appended and reads the
\* same between two blocks
DateNow == Len(blockchain.chain) - 1

\* an address no wallet and no validator has
bob == <<98, 48, 98>>

WalletAddresses == { wallets[i].address : i \in 1..Len(wallets) }

\* The transactions callers build, as
\* << fromAddress, toAddress, amount, fee, the private key signed with or NULL >>:
\* a wallet pays bob, itself or a validator, signed or not; a validator or the
\* empty address pays bob; a caller issues a transaction without origin.
TransactionRequests ==
    UNION { ({w.address} \X {bob, w.address, validator1} \X {600} \X {1} \X {w.privateKey})
            \cup { << w.address, bob, 600, 1, NULL >> }
            \cup ({validator1, EmptyString} \X {bob} \X {600} \X {1} \X {w.privateKey})
          : w \in { wallets[i] : i \in 1..Len(wallets) } }
    \cup ({NULL} \X {bob} \X {600, -200} \X {0} \X {NULL})

\* The delegations callers ask for, as << delegator, validator, amount >>: a
\* wallet delegates 500 to a validator or to bob, who is none; bob delegates a
\* negative amount.
DelegationRequests ==
    (WalletAddresses \X {validator1, validator2, validator3, bob} \X {500})
    \cup ({bob} \X {validator1, validator2, validator3} \X {-1000000})

\* the requests with no negative amount or fee
NonNegativeTransactionRequests == { q \in TransactionRequests : q[3] >= 0 /\ q[4] >= 0 }
NonNegativeDelegationRequests == { q \in DelegationRequests : q[3] >= 0 }

\* the values of Math.random() * totalStake tried: 0 and the cumulative stake at
\* each active validator
RandomDraws(bc) ==
    {0} \cup { SumStake(activeValidators(bc), i) : i \in 1..Len(activeValidators(bc)) }

\* a call that changes the blockchain is one of at most MaxCalls
Counted(r) == r.error = NoError => calls < MaxCalls

Count(r) == IF r.error = NoError THEN calls + 1 ELSE calls

Init ==
    /\ calls = 0
    /\ blockchain = NewCosmosBlockchain(0)
    /\ wallets = <<>>
    /\ lastCall = [op |-> "constructor", error |-> NoError]

\* createWallet of the component: a new wallet is given 1000
CreateWallet ==
    /\ calls < MaxCalls
    /\ \E privateKey \in PrivateKeys :
         \E wallet \in { NewSimpleWallet(privateKey) } :
              /\ blockchain' = [blockchain EXCEPT
                                   !.balances = MapSet(@, wallet.address, 1000),
                                   !.totalSupply = @ + 1000]
              /\ wallets' = Append(wallets, wallet)
              /\ lastCall' = [op |-> "createWallet", error |-> NoError, wallet |-> wallet]
    /\ calls' = calls + 1

\* The identity of the Transaction object a caller makes next.  Two objects with
\* the same fields are two transactions: ref tells them apart, as the reference
\* of the object does.  It is no property of the object: no hash and no JSON
\* text holds it.  An object is named by the length of the chain and its place
\* in the pending pool when it is made; the reward of a block has place 0.
NextRef == << Len(blockchain.chain), Len(blockchain.pendingTransactions) + 1 >>

\* a caller builds a transaction, signs it or not, and calls createTransaction
CreateTransaction(requests) ==
    /\ \E q \in requests :
         \* a signed transaction is accepted, one of the MaxCalls calls
         /\ q[5] # NULL => calls < MaxCalls
         /\ \E made \in { NewTransaction(q[1], q[2], q[3], q[4], DateNow) @@ [ref |-> NextRef] } :
            \E transaction \in { IF q[5] = NULL THEN made ELSE signTransaction(made, q[5]) } :
            \E r \in { createTransaction(blockchain, transaction) } :
              /\ Counted(r)
              /\ blockchain' = r.bc
              /\ calls' = Count(r)
              /\ lastCall' = [op |-> "createTransaction", error |-> r.error,
                              transaction |-> transaction]
    /\ UNCHANGED wallets

\* the Transaction objects callers made that the blockchain holds, in the pending
\* pool or in a block
HeldTransactions ==
    LET held == { blockchain.pendingTransactions[k] :
                      k \in 1..Len(blockchain.pendingTransactions) }
                \cup UNION { { blockchain.chain[i].transactions[k] :
                                   k \in 1..Len(blockchain.chain[i].transactions) } :
                             i \in 1..Len(blockchain.chain) }
    IN  { tx \in held : "ref" \in DOMAIN tx }

\* a caller calls createTransaction again with a Transaction object it has
\* passed before
Resubmit ==
    /\ calls < MaxCalls
    /\ \E transaction \in HeldTransactions :
         \E r \in { createTransaction(blockchain, transaction) } :
              /\ blockchain' = r.bc
              /\ calls' = Count(r)
              /\ lastCall' = [op |-> "createTransaction", error |-> r.error,
                              transaction |-> transaction]
    /\ UNCHANGED wallets

\* handleMining of the component calls minePendingTransactions
MinePendingTransactions ==
    \* the call appends a block, one of the MaxCalls calls, unless no validator is active
    /\ Len(activeValidators(blockchain)) # 0 => calls < MaxCalls
    /\ \E random \in RandomDraws(blockchain) :
         \E r \in { minePendingTransactions(blockchain, random, DateNow, DateNow) } :
              /\ Counted(r)
              /\ blockchain' = r.bc
              /\ calls' = Count(r)
              /\ lastCall' = [op |-> "minePendingTransactions", error |-> r.error,
                              block |-> r.block, pending |-> r.pending,
                              ledgers |-> r.ledgers]
    /\ UNCHANGED wallets

\* a caller calls delegate
Delegate(requests) ==
    /\ \E q \in requests :
         \E r \in { delegate(blockchain, q[1], q[2], q[3]) } :
              /\ Counted(r)
              /\ blockchain' = r.bc
              /\ calls' = Count(r)
              /\ lastCall' = [op |-> "delegate", error |-> r.error,
                              delegatorAddress |-> q[1], validatorAddress |-> q[2],
                              amount |-> q[3]]
    /\ UNCHANGED wallets

Next ==
    \/ CreateWallet
    \/ CreateTransaction(TransactionRequests)
    \/ MinePendingTransactions
    \/ Delegate(DelegationRequests)

Spec == Init /\ [][Next]_vars

\* the calls that lead to the states in which minePendingTransactions is
\* called with each of the draws
NextDraw ==
    /\ calls < MaxDrawCalls
    /\ \/ CreateWallet
       \/ CreateTransaction(TransactionRequests)
       \/ MinePendingTransactions
       \/ Delegate(DelegationRequests)

SpecDraw == Init /\ [][NextDraw]_vars

\* the calls made with no negative amount or fee
NextNonNegative ==
    \/ CreateWallet
    \/ CreateTransaction(NonNegativeTransactionRequests)
    \/ MinePendingTransactions
    \/ Delegate(NonNegativeDelegationRequests)

SpecNonNegative == Init /\ [][NextNonNegative]_vars

\* the calls, and the calls that pass a Transaction object a second time
NextResubmit ==
    \/ CreateWallet
    \/ CreateTransaction(TransactionRequests)
    \/ Resubmit
    \/ MinePendingTransactions
    \/ Delegate(DelegationRequests)

SpecResubmit == Init /\ [][NextResubmit]_vars

\* the poll of the component: every second, between two callbacks, it reads
\* getChainInfo
GetChainInfo ==
    /\ lastCall' = [op |-> "getChainInfo", error |-> NoError,
                    chainInfo |-> getChainInfo(blockchain)]
    /\ UNCHANGED << blockchain, wallets, calls >>

\* the calls and the poll
NextObserved ==
    \/ CreateWallet
    \/ CreateTransaction(TransactionRequests)
    \/ MinePendingTransactions
    \/ Delegate(DelegationRequests)
    \/ GetChainInfo

SpecObserved == Init /\ [][NextObserved]_vars

(***************************************************************************)
(* selectValidator alone: the validators of the blockchain are any three   *)
(* with a stake of -1..MaxStake, active or not (stake and isActive are     *)
(* public fields), and selectValidator is called with any draw.            *)
(***************************************************************************)
ValidatorStates == [stake : -1..MaxStake, isActive : BOOLEAN]

\* the blockchain after construction with the validators in the states drawn
WithValidators(drawn) ==
    [NewCosmosBlockchain(0) EXCEPT
        !.validators = [a \in DOMAIN @ |->
                           [@[a] EXCEPT !.stake = drawn[a].stake,
                                        !.isActive = drawn[a].isActive]]]

InitSelect ==
    /\ calls = 0
    /\ wallets = <<>>
    /\ lastCall = [op |-> "constructor", error |-> NoError]
    /\ \E drawn \in [{validator1, validator2, validator3} -> ValidatorStates] :
          blockchain = WithValidators(drawn)

\* The values of Math.random() * totalStake, a real number of [0, totalStake):
\* selectValidator compares the draw with sums of integer stakes only, so that a
\* draw between two integers does what the greater of the two does; the draws
\* are 0 and those integers.
SelectDraws(bc) == 0..SumStake(activeValidators(bc), Len(activeValidators(bc)))

\* a caller calls selectValidator
SelectValidator ==
    /\ \E random \in SelectDraws(blockchain) :
         \E r \in { selectValidator(blockchain, random) } :
              lastCall' = [op |-> "selectValidator", error |-> r.error,
                           validator |-> r.validator, random |-> random]
    /\ UNCHANGED << blockchain, wallets, calls >>

NextSelect == SelectValidator

SpecSelect == InitSelect /\ [][NextSelect]_vars


(***************************************************************************)
(* What the claims speak of.                                               *)
(***************************************************************************)
\* the last call was a minePendingTransactions that appended a block
Mined == lastCall.op = "minePendingTransactions" /\ lastCall.error = NoError

\* the positions of the last block's transactions
Settled == IF Mined THEN 1..Len(lastCall.block.transactions) ELSE {}

SettledTransaction(k) == lastCall.block.transactions[k]

\* balanceOf(address) just before and just after the k-th transaction of the last
\* block is settled
BalanceBefore(k, address) == getBalance(lastCall.ledgers[k], address)
BalanceAfter(k, address) == getBalance(lastCall.ledgers[k + 1], address)

\* the addresses with a balance in the ledger after the k-th settlement, and
\* those the k-th transaction names
AddressesAt(k) ==
    (DOMAIN lastCall.ledgers[k].balances) \cup (DOMAIN lastCall.ledgers[k + 1].balances)
    \cup {SettledTransaction(k).fromAddress, SettledTransaction(k).toAddress,
          lastCall.block.validator}

(***************************************************************************)
(* C1: for every settled transaction with an origin, the origin's balance  *)
(* is lower by amount + fee, the destination's higher by amount and the    *)
(* producer's higher by fee, whatever the three addresses are.             *)
(***************************************************************************)
C1_SettlementDeltas ==
    \A k \in Settled :
        LET tx == SettledTransaction(k)
        IN  tx.fromAddress # NULL =>
              /\ BalanceAfter(k, tx.fromAddress)
                    = BalanceBefore(k, tx.fromAddress) - (tx.amount + tx.fee)
              /\ BalanceAfter(k, tx.toAddress) = BalanceBefore(k, tx.toAddress) + tx.amount
              /\ BalanceAfter(k, lastCall.block.validator)
                    = BalanceBefore(k, lastCall.block.validator) + tx.fee

\* C1 as amended: every address's balance changes by the sum of what it is debited
\* as the origin and credited as the destination and as the producer; this is the
\* three changes of C1 when the three addresses differ.
C1_SettlementNetDeltas ==
    \A k \in Settled :
        LET tx == SettledTransaction(k)
        IN  tx.fromAddress # NULL =>
              \A a \in AddressesAt(k) :
                  BalanceAfter(k, a) = BalanceBefore(k, a)
                      - (IF a = tx.fromAddress THEN tx.amount + tx.fee ELSE 0)
                      + (IF a = tx.toAddress THEN tx.amount ELSE 0)
                      + (IF a = lastCall.block.validator THEN tx.fee ELSE 0)

\* a transaction was settled whose destination is its origin, and one whose
\* destination is the producer, each with a fee
C1_Witness ==
    /\ \E k \in Settled :
          LET tx == SettledTransaction(k)
          IN  tx.fromAddress # NULL /\ tx.fromAddress = tx.toAddress /\ tx.fee > 0
    /\ \E k \in Settled :
          LET tx == SettledTransaction(k)
          IN  tx.fromAddress # NULL /\ tx.toAddress = lastCall.block.validator

(***************************************************************************)
(* C2: with no negative amount or fee in any call, no balance of the       *)
(* ledger is negative.                                                     *)
(***************************************************************************)
C2_BalancesNonNegative ==
    \A a \in DOMAIN blockchain.balances : blockchain.balances[a] >= 0

(***************************************************************************)
(* C3: the chain is never empty, its first block is the genesis block      *)
(* (previousHash "0", no transactions, validator "genesis"), and every     *)
(* later block's previousHash is the hash of the block before it.          *)
(***************************************************************************)
C3_ChainLinked ==
    /\ Len(blockchain.chain) >= 1
    /\ blockchain.chain[1].previousHash = ZeroString
    /\ blockchain.chain[1].transactions = <<>>
    /\ blockchain.chain[1].validator = genesis
    /\ \A i \in 2..Len(blockchain.chain) :
          blockchain.chain[i].previousHash = blockchain.chain[i - 1].hash

\* two blocks were appended to the genesis block
C3_Witness == Len(blockchain.chain) >= 3


(***************************************************************************)
(* C4: a delegate(d, v, n) that succeeds had v in the validator set and    *)
(* balanceOf(d) >= n, and in the one step raises stakingInfoOf(d)[v] by n  *)
(* (from 0 when absent), raises v's stake by n and lowers balanceOf(d) by  *)
(* n.                                                                      *)
(***************************************************************************)
\* stakingInfoOf(d)[v], 0 when absent
Delegated(bc, d, v) ==
    IF v \in DOMAIN getStakingInfo(bc, d) THEN getStakingInfo(bc, d)[v] ELSE 0

C4_DelegateEffect ==
    [][ (lastCall'.op = "delegate" /\ lastCall'.error = NoError) =>
          LET d == lastCall'.delegatorAddress
              v == lastCall'.validatorAddress
              n == lastCall'.amount
          IN  /\ v \in DOMAIN blockchain.validators
              /\ getBalance(blockchain, d) >= n
              /\ v \in DOMAIN getStakingInfo(blockchain', d)
              /\ getStakingInfo(blockchain', d)[v] = Delegated(blockchain, d, v) + n
              /\ blockchain'.validators[v].stake = blockchain.validators[v].stake + n
              /\ getBalance(blockchain', d) = getBalance(blockchain, d) - n
      ]_vars

\* a delegation succeeded that raised an entry already in the staking pool
C4_Witness ==
    /\ lastCall.op = "delegate" /\ lastCall.error = NoError
    /\ lastCall.amount > 0
    /\ Delegated(blockchain, lastCall.delegatorAddress, lastCall.validatorAddress)
          > lastCall.amount

(***************************************************************************)
(* C5: a delegate that is rejected fails with the unknown-validator error  *)
(* when v is not in the validator set and with the insufficient-balance    *)
(* error when balanceOf(d) < n, and leaves the whole blockchain (balances, *)
(* staking pool, validators, chain, pending pool, totalSupply) unchanged.  *)
(***************************************************************************)
C5_RejectedDelegate ==
    [][ lastCall'.op = "delegate" =>
          LET d == lastCall'.delegatorAddress
              v == lastCall'.validatorAddress
              n == lastCall'.amount
          IN  /\ v \notin DOMAIN blockchain.validators
                    => lastCall'.error = ErrUnknownValidator
              /\ (v \in DOMAIN blockchain.validators /\ getBalance(blockchain, d) < n)
                    => lastCall'.error = ErrInsufficientBalance
              /\ lastCall'.error # NoError => blockchain' = blockchain
      ]_vars

\* a delegation was rejected for the balance, by a delegator who holds a balance
\* and has no entry in the staking pool
C5_Witness ==
    /\ lastCall.op = "delegate" /\ lastCall.error = ErrInsufficientBalance
    /\ getBalance(blockchain, lastCall.delegatorAddress) > 0
    /\ lastCall.delegatorAddress \notin DOMAIN blockchain.stakingPool

(***************************************************************************)
(* C6: minePendingTransactions called when no validator is active with a   *)
(* positive stake fails with the no-active-validators error and changes    *)
(* nothing: the pending pool (no reward is added), chain, balances,        *)
(* totalSupply, staking pool and validators are as before.                 *)
(***************************************************************************)
C6_FailedMineChangesNothing ==
    [][ lastCall'.op = "minePendingTransactions" =>
          /\ (\A a \in DOMAIN blockchain.validators :
                 ~(blockchain.validators[a].isActive /\ blockchain.validators[a].stake > 0))
                => lastCall'.error = ErrNoActiveValidators
          /\ lastCall'.error # NoError => blockchain' = blockchain
      ]_vars

\* mining failed with a transaction in the pending pool
C6_Witness ==
    /\ lastCall.op = "minePendingTransactions"
    /\ lastCall.error = ErrNoActiveValidators
    /\ Len(blockchain.pendingTransactions) > 0

(***************************************************************************)
(* C7: createTransaction(tx) appends tx to the pending pool exactly when   *)
(* tx has no origin or has a signature, and otherwise fails and leaves the *)
(* pool as it is; either way the chain, balances, totalSupply, staking     *)
(* pool and validators are unchanged, and the origin's balance plays no    *)
(* part.                                                                   *)
(***************************************************************************)
C7_SubmitIffAuthorized ==
    [][ lastCall'.op = "createTransaction" =>
          LET tx == lastCall'.transaction
              authorized == tx.fromAddress = NULL \/ tx.signature # NULL
          IN  /\ authorized =>
                    /\ lastCall'.error = NoError
                    /\ blockchain'.pendingTransactions
                          = Append(blockchain.pendingTransactions, tx)
              /\ ~authorized =>
                    /\ lastCall'.error = ErrInvalidTransaction
                    /\ blockchain'.pendingTransactions = blockchain.pendingTransactions
              /\ blockchain'.chain = blockchain.chain
              /\ blockchain'.balances = blockchain.balances
              /\ blockchain'.totalSupply = blockchain.totalSupply
              /\ blockchain'.stakingPool = blockchain.stakingPool
              /\ blockchain'.validators = blockchain.validators
      ]_vars

\* a wallet's transaction was accepted into the pending pool that the wallet
\* cannot afford
C7_Witness ==
    /\ lastCall.op = "createTransaction" /\ lastCall.error = NoError
    /\ lastCall.transaction.fromAddress \in WalletAddresses
    /\ getBalance(blockchain, lastCall.transaction.fromAddress)
          < lastCall.transaction.amount + lastCall.transaction.fee
    /\ blockchain.pendingTransactions[Len(blockchain.pendingTransactions)]
          = lastCall.transaction

(***************************************************************************)
(* C8: for every settled transaction without origin, totalSupply is higher *)
(* by its amount, the destination's balance is higher by its amount, and   *)
(* no address's balance is lower.                                          *)
(***************************************************************************)
C8_RewardSettlement ==
    \A k \in Settled :
        LET tx == SettledTransaction(k)
        IN  tx.fromAddress = NULL =>
              /\ lastCall.ledgers[k + 1].totalSupply
                    = lastCall.ledgers[k].totalSupply + tx.amount
              /\ BalanceAfter(k, tx.toAddress) = BalanceBefore(k, tx.toAddress) + tx.amount
              /\ \A a \in AddressesAt(k) : BalanceAfter(k, a) >= BalanceBefore(k, a)

RECURSIVE SumMinted(_, _)
\* the sum of the amounts of the transactions without origin among txs[1..n]
SumMinted(txs, n) ==
    IF n = 0 THEN 0
    ELSE SumMinted(txs, n - 1) + (IF txs[n].fromAddress = NULL THEN txs[n].amount ELSE 0)

C10_EmptyPoolBlock ==
    [][ (lastCall'.op = "minePendingTransactions"
         /\ blockchain.pendingTransactions = <<>>
         /\ \E a \in DOMAIN blockchain.validators :
               blockchain.validators[a].isActive /\ blockchain.validators[a].stake > 0)
        => /\ lastCall'.error = NoError
           /\ Len(blockchain'.chain) = Len(blockchain.chain) + 1
           /\ LET block == blockchain'.chain[Len(blockchain'.chain)]
              IN  /\ block = lastCall'.block
                  /\ Len(block.transactions) = 1
                  /\ block.transactions[1].fromAddress = NULL
                  /\ block.transactions[1].toAddress = block.validator
                  /\ block.transactions[1].amount = miningReward
                  /\ block.transactions[1].fee = 0
      ]_vars

\* a block was mined from an empty pending pool
C10_Witness == Mined /\ lastCall.pending = <<>> /\ Len(lastCall.block.transactions) = 1

(***************************************************************************)
(* C11: every transaction object is in at most one block of the chain and  *)
(* at most once in that block's list, so that none is settled twice.       *)
(***************************************************************************)
\* the identity of the k-th transaction of the i-th block of the chain: its ref,
\* and for the reward the block makes, the block and place 0
Identity(i, k) ==
    LET tx == blockchain.chain[i].transactions[k]
    IN  IF "ref" \in DOMAIN tx THEN tx.ref ELSE << i - 1, 0 >>

\* the places << block, position >> of the chain that hold a transaction
Places ==
    UNION { { << i, k >> : k \in 1..Len(blockchain.chain[i].transactions) } :
            i \in 1..Len(blockchain.chain) }

C11_ConsumedAtMostOnce ==
    \A p, q \in Places : Identity(p[1], p[2]) = Identity(q[1], q[2]) => p = q

(***************************************************************************)
(* C12: a double-spend within one block is reachable.  Every transaction   *)
(* of the pending pool whose origin can afford it alone, against the       *)
(* ledger as it is when the block is made, is in the block, whatever the   *)
(* other transactions of the pool spend (C12_EachAffordableIncluded); and  *)
(* a block is reached with two transactions of one origin, each            *)
(* affordable, that the origin cannot afford together (C12_Witness).       *)
(***************************************************************************)
\* balanceOf(address) when the filter runs, before the block's first settlement
BalanceAtFilter(address) == getBalance(lastCall.ledgers[1], address)

C12_EachAffordableIncluded ==
    Mined =>
      \A k \in 1..Len(lastCall.pending) :
          LET tx == lastCall.pending[k]
          IN  (tx.fromAddress # NULL
               /\ tx.amount + tx.fee <= BalanceAtFilter(tx.fromAddress))
              => \E l \in Settled : SettledTransaction(l) = tx

\* two transactions of one origin are in the last block, each affordable when the
\* filter ran and not both; the origin's balance is negative after them
C12_Witness ==
    \E k, l \in Settled :
        LET t1 == SettledTransaction(k)
            t2 == SettledTransaction(l)
        IN  /\ k < l
            /\ t1.fromAddress # NULL /\ t1.fromAddress # EmptyString
            /\ t2.fromAddress = t1.fromAddress
            /\ t1.amount + t1.fee <= BalanceAtFilter(t1.fromAddress)
            /\ t2.amount + t2.fee <= BalanceAtFilter(t1.fromAddress)
            /\ t1.amount + t1.fee + t2.amount + t2.fee > BalanceAtFilter(t1.fromAddress)
            /\ getBalance(blockchain, t1.fromAddress) < 0

(***************************************************************************)
(* C13: the state after construction has chain height 0, totalSupply       *)
(* 2,400,000, the three validators validator1, validator2 and validator3,  *)
(* all active, with stakes 1,000,000, 800,000 and 600,000 and balances     *)
(* equal to their stakes, an empty pending pool and an empty staking pool. *)
(***************************************************************************)
C13_GenesisState ==
    lastCall.op = "constructor" =>
      /\ getChainInfo(blockchain).blockHeight = 0
      /\ Len(blockchain.chain) = 1
      /\ blockchain.totalSupply = 2400000
      /\ getChainInfo(blockchain).totalSupply = 2400000
      /\ getChainInfo(blockchain).activeValidators = 3
      /\ DOMAIN blockchain.validators = {validator1, validator2, validator3}
      /\ \A a \in DOMAIN blockchain.validators :
            /\ blockchain.validators[a].isActive
            /\ blockchain.validators[a].address = a
            /\ getBalance(blockchain, a) = blockchain.validators[a].stake
      /\ blockchain.validators[validator1].stake = 1000000
      /\ blockchain.validators[validator2].stake = 800000
      /\ blockchain.validators[validator3].stake = 600000
      /\ DOMAIN blockchain.balances = {validator1, validator2, validator3}
      /\ blockchain.pendingTransactions = <<>>
      /\ getChainInfo(blockchain).pendingTransactions = 0
      /\ blockchain.stakingPool = EmptyMap

\* the state after construction, before any call
C13_Witness ==
    /\ lastCall.op = "constructor"
    /\ calls = 0
    /\ Len(activeValidators(blockchain)) = 3

(***************************************************************************)
(* C14: selectValidator fails with the no-active-validators error exactly  *)
(* when no validator is active with a positive stake; when one is, it      *)
(* returns a validator and does not fail.                                  *)
(***************************************************************************)
\* the validators that are active with a positive stake
Eligible(bc) ==
    { a \in DOMAIN bc.validators : bc.validators[a].isActive /\ bc.validators[a].stake > 0 }

C14_SelectFailsIffNoneEligible ==
    lastCall.op = "selectValidator" =>
      /\ lastCall.error = ErrNoActiveValidators <=> Eligible(blockchain) = {}
      /\ lastCall.error \in {NoError, ErrNoActiveValidators}
      /\ lastCall.error = NoError => lastCall.validator \in DOMAIN blockchain.validators

\* selectValidator failed where one validator is inactive with a positive stake
\* and another active with stake 0
C14_Witness ==
    /\ lastCall.op = "selectValidator"
    /\ lastCall.error = ErrNoActiveValidators
    /\ \E a, b \in DOMAIN blockchain.validators :
          /\ ~blockchain.validators[a].isActive /\ blockchain.validators[a].stake > 0
          /\ blockchain.validators[b].isActive /\ blockchain.validators[b].stake = 0

(***************************************************************************)
(* C15: when exactly one validator is active with a positive stake,        *)
(* selectValidator returns that validator, whatever the draw.              *)
(***************************************************************************)
C15_OnlyEligibleSelected ==
    (lastCall.op = "selectValidator" /\ Cardinality(Eligible(blockchain)) = 1)
      => /\ lastCall.error = NoError
         /\ lastCall.validator \in Eligible(blockchain)

\* selectValidator returned validator3, the only one active with a positive
\* stake, on the greatest draw, with validator1 inactive with a positive stake
\* and validator2 active with none
C15_Witness ==
    /\ lastCall.op = "selectValidator"
    /\ Eligible(blockchain) = {validator3}
    /\ lastCall.validator = validator3
    /\ lastCall.random = blockchain.validators[validator3].stake
    /\ lastCall.random > 1
    /\ ~blockchain.validators[validator1].isActive
    /\ blockchain.validators[validator1].stake > 0
    /\ blockchain.validators[validator2].stake = 0

(***************************************************************************)
(* C16: the block at place k of the chain has index k, from 0 for the      *)
(* genesis block; getChainInfo reports blockHeight = chain.length - 1,     *)
(* which is the number of minePendingTransactions calls that succeeded     *)
(* (0 after construction, one more with each, the same after every other   *)
(* call), and pendingTransactions = the length of the pending pool; and it *)
(* changes nothing.                                                        *)
(***************************************************************************)
C16_HeightIsPosition ==
    /\ \A k \in 1..Len(blockchain.chain) : blockchain.chain[k].index = k - 1
    /\ getChainInfo(blockchain).blockHeight = Len(blockchain.chain) - 1
    /\ getChainInfo(blockchain).pendingTransactions = Len(blockchain.pendingTransactions)
    /\ lastCall.op = "constructor" => getChainInfo(blockchain).blockHeight = 0
    /\ lastCall.op = "getChainInfo" => lastCall.chainInfo = getChainInfo(blockchain)

C16_HeightCountsBlocks ==
    /\ lastCall'.op = "getChainInfo" => blockchain' = blockchain
    /\ getChainInfo(blockchain').blockHeight
          = getChainInfo(blockchain).blockHeight
            + (IF lastCall'.op = "minePendingTransactions" /\ lastCall'.error = NoError
               THEN 1 ELSE 0)

C16_ChainInfo == []C16_HeightIsPosition /\ [][C16_HeightCountsBlocks]_vars

\* the poll read a height of 2 and a pending transaction
C16_Witness ==
    /\ lastCall.op = "getChainInfo"
    /\ lastCall.chainInfo.blockHeight = 2
    /\ lastCall.chainInfo.pendingTransactions = 1
    /\ Len(blockchain.chain) = 3

(***************************************************************************)
(* C17: no partial block is observable.  Every state is one an observer    *)
(* (the poll, a read of a balance or of the staking pool, another call)    *)
(* can see, and in every one the pending pool holds no reward made by      *)
(* minePendingTransactions; a minePendingTransactions that succeeds        *)
(* settles from the ledger as it is at the call, and in the state after it *)
(* every transaction of the block is settled, the block is the last of the *)
(* chain and the pending pool is empty: no call and no read falls between. *)
(***************************************************************************)
\* the ledger after the k-th settlement of the last block
LedgerAfter(k) == lastCall.ledgers[k + 1]

C17_NothingHalfDone ==
    /\ \A k \in 1..Len(blockchain.pendingTransactions) :
          "ref" \in DOMAIN blockchain.pendingTransactions[k]
    /\ Mined =>
          /\ blockchain.chain[Len(blockchain.chain)] = lastCall.block
          /\ blockchain.pendingTransactions = <<>>
          /\ blockchain.balances = LedgerAfter(Len(lastCall.block.transactions)).balances
          /\ blockchain.totalSupply
                = LedgerAfter(Len(lastCall.block.transactions)).totalSupply
    /\ lastCall.op = "getChainInfo" =>
          lastCall.chainInfo.pendingTransactions
              = Cardinality({ k \in 1..Len(blockchain.pendingTransactions) :
                                 "ref" \in DOMAIN blockchain.pendingTransactions[k] })

C17_BlockInOneStep ==
    /\ (lastCall'.op = "minePendingTransactions" /\ lastCall'.error = NoError) =>
          /\ lastCall'.ledgers[1].balances = blockchain.balances
          /\ lastCall'.ledgers[1].totalSupply = blockchain.totalSupply
          /\ lastCall'.pending = blockchain.pendingTransactions
          /\ blockchain'.chain = Append(blockchain.chain, lastCall'.block)
    /\ ~(lastCall'.op = "minePendingTransactions" /\ lastCall'.error = NoError) =>
          blockchain'.chain = blockchain.chain

C17_NoPartialBlock == []C17_NothingHalfDone /\ [][C17_BlockInOneStep]_vars

\* the poll read the state after a block that settled a transaction of the pool
\* and its reward
C17_Witness ==
    /\ lastCall.op = "getChainInfo"
    /\ lastCall.chainInfo.pendingTransactions = 0
    /\ Len(blockchain.chain) >= 2
    /\ Len(blockchain.chain[Len(blockchain.chain)].transactions) >= 2

(***************************************************************************)
(* C18: no transaction with a negative amount or a negative fee is in the  *)
(* pending pool or in a block, the constructor having refused it.          *)
(***************************************************************************)
C18_NoNegativeAmount ==
    /\ \A k \in 1..Len(blockchain.pendingTransactions) :
          /\ blockchain.pendingTransactions[k].amount >= 0
          /\ blockchain.pendingTransactions[k].fee >= 0
    /\ \A p \in Places :
          /\ blockchain.chain[p[1]].transactions[p[2]].amount >= 0
          /\ blockchain.chain[p[1]].transactions[p[2]].fee >= 0

(***************************************************************************)
(* C19: the transactions of a block made by minePendingTransactions are    *)
(* those of the pending pool at the call that pass isTransactionValid      *)
(* against the ledger at the call, in the order of the pool, followed by    *)
(* the reward of the block's validator, which is the last; and the         *)
(* settlement goes through them in that order, each one changing the       *)
(* ledger the one before it left.                                          *)
(***************************************************************************)
\* what the k-th settlement of the last block adds to the balance of address
SettledDelta(k, address) ==
    LET tx == SettledTransaction(k)
    IN  IF tx.fromAddress # NULL
        THEN (IF address = tx.toAddress THEN tx.amount ELSE 0)
             + (IF address = lastCall.block.validator THEN tx.fee ELSE 0)
             - (IF address = tx.fromAddress THEN tx.amount + tx.fee ELSE 0)
        ELSE (IF address = tx.toAddress THEN tx.amount ELSE 0)

C20_IncludedWereAffordable ==
    \A k \in Settled :
        LET tx == SettledTransaction(k)
        IN  tx.fromAddress # NULL =>
              BalanceAtFilter(tx.fromAddress) >= tx.amount + tx.fee

(***************************************************************************)
(* C21: after every minePendingTransactions that succeeds the pending pool *)
(* is empty, and a transaction of the pool whose origin could not afford   *)
(* amount + fee when the block was made is dropped: it is not in the       *)
(* block, and no block of the chain holds it.                              *)
(***************************************************************************)
\* the transactions of the pool at the last call whose origin could not afford
\* them
Unaffordable ==
    { k \in 1..Len(lastCall.pending) :
        /\ lastCall.pending[k].fromAddress # NULL
        /\ BalanceAtFilter(lastCall.pending[k].fromAddress)
              < lastCall.pending[k].amount + lastCall.pending[k].fee }

C21_UnaffordableDropped ==
    Mined =>
      /\ blockchain.pendingTransactions = <<>>
      /\ \A k \in Unaffordable :
            /\ \A l \in Settled : SettledTransaction(l) # lastCall.pending[k]
            /\ \A p \in Places :
                  blockchain.chain[p[1]].transactions[p[2]] # lastCall.pending[k]

(***************************************************************************)
(* C22: the validator selectValidator returns is a validator that is       *)
(* active with a positive stake when it is selected, whatever the draw,    *)
(* and so is the validator of the block minePendingTransactions makes.     *)
(***************************************************************************)
C22_SelectedIsEligible ==
    /\ (lastCall.op = "selectValidator" /\ lastCall.error = NoError)
          => lastCall.validator \in Eligible(blockchain)
    /\ \A random \in SelectDraws(blockchain) :
          LET made == minePendingTransactions(blockchain, random, DateNow, DateNow)
          IN  made.error = NoError =>
                /\ made.block.validator \in Eligible(blockchain)
                /\ made.bc.chain[Len(made.bc.chain)].validator = made.block.validator

\* selectValidator returned validator3 where validator2 is active with a positive
\* stake too and validator1 is not active
C22_Witness ==
    /\ lastCall.op = "selectValidator"
    /\ lastCall.validator = validator3
    /\ Eligible(blockchain) = {validator2, validator3}
    /\ blockchain.validators[validator1].stake > 0
    /\ lastCall.random
          = blockchain.validators[validator2].stake + blockchain.validators[validator3].stake

(***************************************************************************)
(* C23: the validator set is fixed after construction.  No step adds or    *)
(* removes a validator or changes a validator's address, isActive or       *)
(* missedBlocks, which stays 0; a validator's stake changes only in a      *)
(* delegate to it that succeeds, and its totalBlocks only in a             *)
(* minePendingTransactions that selected it, by one.  Rewards and fees     *)
(* change the balance of the block's validator and never its stake.        *)
(***************************************************************************)
C23_ValidatorStep ==
    /\ DOMAIN blockchain'.validators = DOMAIN blockchain.validators
    /\ \A a \in DOMAIN blockchain.validators :
          LET before == blockchain.validators[a]
              after == blockchain'.validators[a]
          IN  /\ after.address = before.address
              /\ after.isActive = before.isActive
              /\ after.missedBlocks = 0
              /\ after.stake # before.stake =>
                    /\ lastCall'.op = "delegate" /\ lastCall'.error = NoError
                    /\ lastCall'.validatorAddress = a
              /\ after.totalBlocks # before.totalBlocks =>
                    /\ lastCall'.op = "minePendingTransactions"
                    /\ lastCall'.error = NoError
                    /\ lastCall'.block.validator = a
                    /\ after.totalBlocks = before.totalBlocks + 1

C23_ValidatorSetFixed == [][C23_ValidatorStep]_vars

\* a block with a transaction that pays a fee was made: its validator's balance
\* is above its stake, which is the stake of construction
C23_Witness ==
    /\ Mined
    /\ \E k \in Settled : SettledTransaction(k).fee > 0
    /\ getBalance(blockchain, lastCall.block.validator)
          > blockchain.validators[lastCall.block.validator].stake + miningReward
    /\ blockchain.validators[lastCall.block.validator].stake = 800000

(***************************************************************************)
(* C24: every validator's stake is non-negative and at least its stake of  *)
(* construction, and every entry of the staking pool is non-negative,      *)
(* whatever amounts delegate accepts.                                      *)
(***************************************************************************)
\* the stake the constructor gives the validator at address
GenesisStake(address) ==
    LET i == CHOOSE j \in 1..Len(genesisValidators) : genesisValidators[j].address = address
    IN  genesisValidators[i].stake

C24_StakesNeverFall ==
    /\ \A a \in DOMAIN blockchain.validators :
          /\ blockchain.validators[a].stake >= 0
          /\ blockchain.validators[a].stake >= GenesisStake(a)
    /\ \A d \in DOMAIN blockchain.stakingPool :
          \A v \in DOMAIN blockchain.stakingPool[d] : blockchain.stakingPool[d][v] >= 0

(***************************************************************************)
(* C25: a delegate(d, v, n) that succeeds leaves the chain, the pending    *)
(* pool, totalSupply, every balance but d's, every entry of the staking    *)
(* pool but that of d for v, and every field of every validator but the    *)
(* stake of v as they are.                                                 *)
(***************************************************************************)
C25_DelegateStep ==
    (lastCall'.op = "delegate" /\ lastCall'.error = NoError) =>
      LET d == lastCall'.delegatorAddress
          v == lastCall'.validatorAddress
      IN  /\ blockchain'.chain = blockchain.chain
          /\ blockchain'.pendingTransactions = blockchain.pendingTransactions
          /\ blockchain'.totalSupply = blockchain.totalSupply
          /\ \A a \in (DOMAIN blockchain.balances) \cup (DOMAIN blockchain'.balances) :
                a # d => getBalance(blockchain', a) = getBalance(blockchain, a)
          /\ \A e \in (DOMAIN blockchain.stakingPool) \cup (DOMAIN blockchain'.stakingPool) :
                \A w \in (DOMAIN getStakingInfo(blockchain, e))
                         \cup (DOMAIN getStakingInfo(blockchain', e)) :
                    << e, w >> # << d, v >> =>
                        /\ w \in DOMAIN getStakingInfo(blockchain, e)
                        /\ w \in DOMAIN getStakingInfo(blockchain', e)
                        /\ getStakingInfo(blockchain', e)[w] = getStakingInfo(blockchain, e)[w]
          /\ DOMAIN blockchain'.validators = DOMAIN blockchain.validators
          /\ \A a \in DOMAIN blockchain.validators :
                IF a = v
                THEN blockchain'.validators[a]
                        = [blockchain.validators[a] EXCEPT
                              !.stake = blockchain'.validators[a].stake]
                ELSE blockchain'.validators[a] = blockchain.validators[a]

C25_DelegateFrame == [][C25_DelegateStep]_vars

\* a delegation succeeded with a transaction in the pending pool, by a delegator
\* with an entry for another validator
C25_Witness ==
    /\ lastCall.op = "delegate" /\ lastCall.error = NoError
    /\ Len(blockchain.pendingTransactions) > 0
    /\ \E w \in DOMAIN getStakingInfo(blockchain, lastCall.delegatorAddress) :
          w # lastCall.validatorAddress

(***************************************************************************)
(* C26: the chain is append-only.  A minePendingTransactions that succeeds *)
(* appends exactly one block and leaves every block that was in the chain  *)
(* as it was; createWallet, createTransaction, delegate and every call     *)
(* that fails leave the chain as it was.                                   *)
(***************************************************************************)
C26_ChainStep ==
    IF lastCall'.op = "minePendingTransactions" /\ lastCall'.error = NoError
    THEN /\ Len(blockchain'.chain) = Len(blockchain.chain) + 1
         /\ \A i \in 1..Len(blockchain.chain) : blockchain'.chain[i] = blockchain.chain[i]
         /\ blockchain'.chain[Len(blockchain'.chain)] = lastCall'.block
    ELSE blockchain'.chain = blockchain.chain

C26_ChainAppendOnly == [][C26_ChainStep]_vars

\* a block was appended to a chain that held a block after the genesis block
C26_Witness ==
    /\ Mined
    /\ Len(blockchain.chain) >= 3
    /\ blockchain.chain[Len(blockchain.chain)] = lastCall.block

(***************************************************************************)
(* C27: totalSupply is the sum of the balances of the ledger plus the sum  *)
(* of the amounts delegated in the staking pool, in every state reached by *)
(* createWallet, createTransaction, minePendingTransactions and delegate.  *)
(***************************************************************************)
RECURSIVE SumOver(_, _)
\* the sum of the values of map m over the keys of set keys
SumOver(m, keys) ==
    IF keys = {} THEN 0
    ELSE LET k == CHOOSE x \in keys : TRUE
         IN  m[k] + SumOver(m, keys \ {k})

SumBalances(bc) == SumOver(bc.balances, DOMAIN bc.balances)

SumDelegated(bc) ==
    SumOver([d \in DOMAIN bc.stakingPool |->
                SumOver(bc.stakingPool[d], DOMAIN bc.stakingPool[d])],
            DOMAIN bc.stakingPool)

C27_SupplyConserved ==
    blockchain.totalSupply = SumBalances(blockchain) + SumDelegated(blockchain)

\* the same, as long as createWallet made no wallet at an address that had one
C27_ConservedWithoutCollision ==
    Len(wallets) <= 1 => C27_SupplyConserved

(***************************************************************************)
(* C28: the stake of each validator is its genesis stake plus the sum,     *)
(* over all delegators d, of getStakingInfo(d)[validator]; the staking     *)
(* pool holds no entry for an address that is not a validator.             *)
(***************************************************************************)
\* the amount the staking pool holds of delegator d for validator v
PoolEntry(bc, d, v) ==
    IF v \in DOMAIN getStakingInfo(bc, d) THEN getStakingInfo(bc, d)[v] ELSE 0

C28_StakeAccounting ==
    /\ \A v \in DOMAIN blockchain.validators :
          blockchain.validators[v].stake
             = GenesisStake(v)
               + SumOver([d \in DOMAIN blockchain.stakingPool |-> PoolEntry(blockchain, d, v)],
                         DOMAIN blockchain.stakingPool)
    /\ \A d \in DOMAIN blockchain.stakingPool :
          DOMAIN blockchain.stakingPool[d] \subseteq DOMAIN blockchain.validators

\* a delegator delegated twice to one validator, whose stake left its genesis stake
C28_Witness ==
    \E v \in DOMAIN blockchain.validators :
       \E d \in DOMAIN blockchain.stakingPool :
          /\ PoolEntry(blockchain, d, v) = 1000
          /\ blockchain.validators[v].stake = GenesisStake(v) + 1000

(***************************************************************************)
(* C29: the totalBlocks of each validator is the number of blocks of the   *)
(* chain whose validator it is, and the totalBlocks of all validators add  *)
(* up to chain.length - 1.                                                 *)
(***************************************************************************)
\* the places in the chain of the blocks made by the validator at address
BlocksOf(address) ==
    { i \in 1..Len(blockchain.chain) : blockchain.chain[i].validator = address }

C29_ProductionAccounting ==
    /\ \A v \in DOMAIN blockchain.validators :
          blockchain.validators[v].totalBlocks = Cardinality(BlocksOf(v))
    /\ SumOver([v \in DOMAIN blockchain.validators |-> blockchain.validators[v].totalBlocks],
               DOMAIN blockchain.validators)
          = Len(blockchain.chain) - 1

\* two validators made blocks, one of them two
C29_Witness ==
    \E v, w \in DOMAIN blockchain.validators :
        /\ v # w
        /\ blockchain.validators[v].totalBlocks = 2
        /\ blockchain.validators[w].totalBlocks = 1
        /\ Len(blockchain.chain) = 4

(***************************************************************************)
(* C30: with amounts that are not negative, every state reached by         *)
(* createWallet, createTransaction, minePendingTransactions and delegate   *)
(* has a validator that is active with a stake above 0, so no              *)
(* minePendingTransactions fails with 'No active validators' and every     *)
(* call of it appends a block.                                             *)
(***************************************************************************)
C30_ProductionEnabled ==
    /\ Eligible(blockchain) # {}
    /\ lastCall.op = "minePendingTransactions" =>
          /\ lastCall.error = NoError
          /\ Len(blockchain.chain) >= 2
          /\ blockchain.chain[Len(blockchain.chain)] = lastCall.block
    /\ \A random \in RandomDraws(blockchain) :
          selectValidator(blockchain, random).error = NoError

\* blocks were made after a delegation raised a stake, with transactions submitted
C30_Witness ==
    /\ Mined
    /\ Len(blockchain.chain) >= 2
    /\ \E v \in DOMAIN blockchain.validators :
          blockchain.validators[v].stake > GenesisStake(v)
    /\ Len(lastCall.pending) >= 1

(***************************************************************************)
(* C31: the draw of the validator changes the outcome of                   *)
(* minePendingTransactions only in who gets the reward and the fees.  Of   *)
(* two calls made in the same state that select different validators, the  *)
(* blocks hold the same sequence of transactions with an origin, and every *)
(* address that is neither of the two validators has the same balance      *)
(* after either call.                                                      *)
(***************************************************************************)
\* the outcome of minePendingTransactions in the current state for each draw
MadeWith ==
    [random \in RandomDraws(blockchain) |->
        minePendingTransactions(blockchain, random, DateNow, DateNow)]

\* the transactions of a block that have an origin
NonReward(block) == SelectSeq(block.transactions, LAMBDA tx : tx.fromAddress # NULL)

C31_DrawOnlyMovesRewardAndFees ==
    LET made == MadeWith
    IN  \A r1, r2 \in DOMAIN made :
          ( /\ made[r1].error = NoError
            /\ made[r2].error = NoError
            /\ made[r1].block.validator # made[r2].block.validator ) =>
              /\ NonReward(made[r1].block) = NonReward(made[r2].block)
              /\ \A a \in (DOMAIN made[r1].bc.balances) \cup (DOMAIN made[r2].bc.balances) :
                    a \notin { made[r1].block.validator, made[r2].block.validator } =>
                       getBalance(made[r1].bc, a) = getBalance(made[r2].bc, a)

\* two draws select different validators for a pool from which the block takes
\* a transaction with a fee, and the ledgers after the two calls differ
C31_Witness ==
    LET made == MadeWith
    IN  \E r1, r2 \in DOMAIN made :
          /\ made[r1].error = NoError
          /\ made[r2].error = NoError
          /\ made[r1].block.validator # made[r2].block.validator
          /\ \E k \in 1..Len(NonReward(made[r1].block)) :
                NonReward(made[r1].block)[k].fee > 0
          /\ made[r1].bc.balances # made[r2].bc.balances

\* a pool from which the block of a draw drops a transaction
C31_DropsReached ==
    LET made == MadeWith
    IN  \E r1 \in DOMAIN made :
          /\ made[r1].error = NoError
          /\ Len(made[r1].block.transactions) < Len(blockchain.pendingTransactions) + 1

====
